---- MODULE Spec2Model ----
(***************************************************************************)
(* Model of the BioDockify desktop host (src/desktop/tauri/src-tauri/src/  *)
(* main.rs): the tray and window event handlers of the host and the        *)
(* "Auto-Restart Monitor" task that spawns the biodockify-engine sidecar,  *)
(* forwards its stdout to the log and respawns it when its event channel   *)
(* closes.                                                                 *)
(*                                                                         *)
(* Threads: the host's main thread runs the handlers (TrayLeftClick,       *)
(* TrayMenuItemClick, WindowCloseRequested, ...); one async task runs the  *)
(* supervisor loop (Announce .. SleepDone); the engine process and the     *)
(* reader/wait threads that feed its event channel are the environment     *)
(* (ChildWrite .. WaitNotice).                                             *)
(***************************************************************************)
EXTENDS Naturals, Sequences, FiniteSets

\* ---- bounds of the model ----
MaxChildren == 2     \* engine processes spawned in one run
MaxLines    == 2     \* stdout lines written by one engine process
MaxChan     == 1     \* events buffered in the event channel
MaxLog      == 8     \* log lines kept by the observer of stdout/stderr
MaxFails    == 2     \* consecutive spawn failures that are counted

\* ---- program constants ----
SpawnFailDelaySecs == 5
RestartDelaySecs   == 2

VARIABLES
    host,           \* "running" | "exited": the host process
    window,         \* "visible" | "hidden" | "destroyed": the window "main"
    quitDelivered,  \* the tray menu item "quit" has been delivered
    pc,             \* position of the supervisor task
    handle,         \* child whose (rx, child) the task holds; 0 = none
    nextId,         \* number of engine processes spawned so far
    fails,          \* consecutive Err results of spawn(), saturating
    slept,          \* duration of the sleep in progress or last done
    eos,            \* children for which rx.recv() has returned None
    tasks,          \* supervisor tasks handed to the async runtime
    alive,          \* engine processes alive in the operating system
    written,        \* stdout lines the held child wrote to its pipe
    fwd,            \* lines of the held child forwarded into the channel
    exitStatus,     \* how the held child's process ended: none, clean or crash
    termSent,       \* the wait thread has sent its final event
    chan,           \* the events in flight in rx
    log,            \* what println!/eprintln! have written, oldest first
    last            \* label of the step taken last

supVars   == <<pc, handle, nextId, fails, slept, eos, tasks>>
childVars == <<alive, written, fwd, exitStatus, termSent, chan>>
uiVars    == <<host, window, quitDelivered>>
vars      == <<host, window, quitDelivered, pc, handle, nextId, fails, slept,
               eos, tasks, alive, written, fwd, exitStatus, termSent, chan, log,
               last>>

Children == 1..MaxChildren

\* ---- log lines ----
Line(k, c, n) == [k |-> k, c |-> c, n |-> n]
LogSpawning   == Line("spawning", 0, 0)
LogFailed     == Line("failed", 0, 0)
LogStarted    == Line("started", 0, 0)
LogExited     == Line("exited", 0, 0)
LogAgent(c, n) == Line("agent", c, n)

\* println!/eprintln!: the line is appended; the observer keeps MaxLog lines.
Println(l, e) == IF Len(l) < MaxLog THEN Append(l, e) ELSE l

\* ---- events of the channel ----
Event(k, c, n) == [k |-> k, c |-> c, n |-> n]

Init ==
    /\ host = "running"
    /\ window = "visible"
    /\ quitDelivered = FALSE
    /\ pc = "idle"
    /\ handle = 0
    /\ nextId = 0
    /\ fails = 0
    /\ slept = 0
    /\ eos = {}
    /\ tasks = 0
    /\ alive = {}
    /\ written = 0
    /\ fwd = 0
    /\ exitStatus = "none"
    /\ termSent = FALSE
    /\ chan = <<>>
    /\ log = <<>>
    /\ last = "init"

\* ---------------------------------------------------------------------
\* The host's main thread
\* ---------------------------------------------------------------------

\* .setup(|app| { ... tauri::async_runtime::spawn(async move { loop ... }) })
Setup ==
    /\ host = "running"
    /\ pc = "idle"
    /\ pc' = "loop"
    /\ tasks' = tasks + 1
    /\ last' = "setup"
    /\ UNCHANGED <<handle, nextId, fails, slept, eos, log>>
    /\ UNCHANGED childVars
    /\ UNCHANGED uiVars

\* The event loop dispatches events once setup has run.
Dispatching == host = "running" /\ pc # "idle"

\* SystemTrayEvent::LeftClick
TrayLeftClick ==
    /\ Dispatching
    /\ window \in {"visible", "hidden"}
    /\ window' = IF window = "visible" THEN "hidden" ELSE "visible"
    /\ last' = "left_click"
    /\ UNCHANGED <<host, quitDelivered, log>>
    /\ UNCHANGED supVars
    /\ UNCHANGED childVars

MenuIds == {"quit", "show", "pause"}

\* Variant: the bodies of the "quit" and "show" arms are swapped.
MenuArmsSwapped(id) ==
    /\ Dispatching
    /\ quitDelivered' = (quitDelivered \/ id = "quit")
    /\ host' = IF id = "show" THEN "exited" ELSE host
    /\ window' = IF id = "quit" /\ window \in {"visible", "hidden"}
                 THEN "visible" ELSE window
    /\ last' = IF id = "quit" THEN "menu_quit"
               ELSE IF id = "show" THEN "menu_show" ELSE "other_event"
    /\ UNCHANGED log
    /\ UNCHANGED supVars
    /\ UNCHANGED childVars

\* Variant: the "quit" arm does not end the process.
MenuQuitIgnored(id) ==
    /\ Dispatching
    /\ quitDelivered' = (quitDelivered \/ id = "quit")
    /\ host' = host
    /\ window' = IF id = "show" /\ window \in {"visible", "hidden"}
                 THEN "visible" ELSE window
    /\ last' = IF id = "quit" THEN "menu_quit"
               ELSE IF id = "show" THEN "menu_show" ELSE "other_event"
    /\ UNCHANGED log
    /\ UNCHANGED supVars
    /\ UNCHANGED childVars

\* Variant: the "quit" arm hides the window instead of ending the process.
MenuQuitHidesWindow(id) ==
    /\ Dispatching
    /\ quitDelivered' = (quitDelivered \/ id = "quit")
    /\ host' = host
    /\ window' = IF window \notin {"visible", "hidden"} THEN window
                 ELSE IF id = "show" THEN "visible"
                 ELSE IF id = "quit" THEN "hidden" ELSE window
    /\ last' = IF id = "quit" THEN "menu_quit"
               ELSE IF id = "show" THEN "menu_show" ELSE "other_event"
    /\ UNCHANGED log
    /\ UNCHANGED supVars
    /\ UNCHANGED childVars

\* SystemTrayEvent::MenuItemClick { id, .. }
TrayMenuItemClick(id) ==
    /\ Dispatching
    /\ quitDelivered' = (quitDelivered \/ id = "quit")
    /\ host' = IF id = "quit" THEN "exited" ELSE host
    /\ window' = IF id = "show" /\ window \in {"visible", "hidden"}
                 THEN "visible" ELSE window
    /\ last' = IF id = "quit" THEN "menu_quit"
               ELSE IF id = "show" THEN "menu_show" ELSE "other_event"
    /\ UNCHANGED log
    /\ UNCHANGED supVars
    /\ UNCHANGED childVars

\* any other SystemTrayEvent
TrayOtherEvent ==
    /\ Dispatching
    /\ last' = "other_event"
    /\ UNCHANGED log
    /\ UNCHANGED uiVars
    /\ UNCHANGED supVars
    /\ UNCHANGED childVars

\* Variant: the close is not prevented; the last window closes and the
\* application exits.
WindowCloseNotPrevented ==
    /\ Dispatching
    /\ window \in {"visible", "hidden"}
    /\ window' = "destroyed"
    /\ host' = "exited"
    /\ last' = "close_requested"
    /\ UNCHANGED <<quitDelivered, log>>
    /\ UNCHANGED supVars
    /\ UNCHANGED childVars

\* tauri::WindowEvent::CloseRequested { api, .. }
WindowCloseRequested ==
    /\ Dispatching
    /\ window \in {"visible", "hidden"}
    /\ window' = "hidden"
    /\ last' = "close_requested"
    /\ UNCHANGED <<host, quitDelivered, log>>
    /\ UNCHANGED supVars
    /\ UNCHANGED childVars

\* any other tauri::WindowEvent
WindowOtherEvent ==
    /\ Dispatching
    /\ last' = "other_event"
    /\ UNCHANGED log
    /\ UNCHANGED uiVars
    /\ UNCHANGED supVars
    /\ UNCHANGED childVars

UiEvent ==
    \/ TrayLeftClick
    \/ \E id \in MenuIds : TrayMenuItemClick(id)
    \/ TrayOtherEvent
    \/ WindowCloseRequested
    \/ WindowOtherEvent

\* ---------------------------------------------------------------------
\* The supervisor task
\* ---------------------------------------------------------------------

\* Variant: the attempt is not announced.
AnnounceSilent ==
    /\ host = "running"
    /\ pc = "loop"
    /\ log' = log
    /\ pc' = "sidecar"
    /\ last' = "announce"
    /\ UNCHANGED <<tasks, handle, nextId, fails, slept, eos>>
    /\ UNCHANGED childVars
    /\ UNCHANGED uiVars

\* println!("[BioDockify Host] Spawning Backend Sidecar...")
Announce ==
    /\ host = "running"
    /\ pc = "loop"
    /\ log' = Println(log, LogSpawning)
    /\ pc' = "sidecar"
    /\ last' = "announce"
    /\ UNCHANGED <<tasks, handle, nextId, fails, slept, eos>>
    /\ UNCHANGED childVars
    /\ UNCHANGED uiVars

\* Variant: the Err of new_sidecar is handled like the Err of spawn().
NewSidecarErrRetries(ok) ==
    /\ host = "running"
    /\ pc = "sidecar"
    /\ pc' = IF ok THEN "spawn" ELSE "sleep"
    /\ log' = IF ok THEN log ELSE Println(log, LogFailed)
    /\ slept' = IF ok THEN slept ELSE SpawnFailDelaySecs
    /\ last' = IF ok THEN "sidecar_ok" ELSE "sidecar_err"
    /\ UNCHANGED <<tasks, handle, nextId, fails, eos>>
    /\ UNCHANGED childVars
    /\ UNCHANGED uiVars

\* Command::new_sidecar("biodockify-engine").expect(...)
NewSidecar(ok) ==
    /\ host = "running"
    /\ pc = "sidecar"
    /\ pc' = IF ok THEN "spawn" ELSE "panicked"
    /\ last' = IF ok THEN "sidecar_ok" ELSE "sidecar_err"
    /\ UNCHANGED <<tasks, handle, nextId, fails, slept, eos, log>>
    /\ UNCHANGED childVars
    /\ UNCHANGED uiVars

\* .spawn() returns Ok((rx, child)); println!("... Backend started. Monitoring...")
SpawnOk ==
    /\ host = "running"
    /\ pc = "spawn"
    /\ nextId < MaxChildren
    /\ nextId' = nextId + 1
    /\ handle' = nextId + 1
    /\ alive' = alive \cup {nextId + 1}
    /\ chan' = <<>>
    /\ fwd' = 0
    /\ exitStatus' = "none"
    /\ termSent' = FALSE
    /\ fails' = 0
    /\ log' = Println(log, LogStarted)
    /\ pc' = "recv"
    /\ last' = "spawn_ok"
    /\ written' = 0
    /\ UNCHANGED <<tasks, slept, eos>>
    /\ UNCHANGED uiVars

\* Variant: the Err of spawn() is unwrapped like the one of new_sidecar.
SpawnErrPanics ==
    /\ host = "running"
    /\ pc = "spawn"
    /\ fails' = IF fails < MaxFails THEN fails + 1 ELSE fails
    /\ pc' = "panicked"
    /\ last' = "spawn_err"
    /\ UNCHANGED <<tasks, handle, nextId, eos, slept, log>>
    /\ UNCHANGED childVars
    /\ UNCHANGED uiVars

\* Variant: the delay grows with the number of failures in a row.
SpawnErrBackoffGrows ==
    /\ host = "running"
    /\ pc = "spawn"
    /\ log' = Println(log, LogFailed)
    /\ fails' = IF fails < MaxFails THEN fails + 1 ELSE fails
    /\ slept' = SpawnFailDelaySecs * (fails + 1)
    /\ pc' = "sleep"
    /\ last' = "spawn_err"
    /\ UNCHANGED <<tasks, handle, nextId, eos>>
    /\ UNCHANGED childVars
    /\ UNCHANGED uiVars

\* .spawn() returns Err(e): eprintln!, sleep 5 s, continue
SpawnErr ==
    /\ host = "running"
    /\ pc = "spawn"
    /\ log' = Println(log, LogFailed)
    /\ fails' = IF fails < MaxFails THEN fails + 1 ELSE fails
    /\ slept' = SpawnFailDelaySecs
    /\ pc' = "sleep"
    /\ last' = "spawn_err"
    /\ UNCHANGED <<tasks, handle, nextId, eos>>
    /\ UNCHANGED childVars
    /\ UNCHANGED uiVars

\* The channel is closed once every sender is gone: the process has been
\* waited for, the readers have reached the end of the pipes and the wait
\* thread has sent its event.
Closed ==
    /\ handle # 0
    /\ handle \notin alive
    /\ fwd = written
    /\ termSent

\* Variant: the monitor loop is left at the event the wait thread sends.
BreakOnTerminated(event) == event.k \notin {"Terminated", "Error"}

\* Variant: the monitor loop is left at the first stderr event.
BreakOnStderr(event) == event.k # "Stderr"

\* while let Some(event) = ...: the loop goes on for every event
LoopContinues(event) == TRUE

\* Variant: every event is printed, not only Stdout.
IsLoggedAll(event) == TRUE

\* Variant: the pattern names the wrong stream.
IsLoggedStderr(event) == event.k = "Stderr"

\* if let CommandEvent::Stdout(line) = event
IsLogged(event) == event.k = "Stdout"

\* Variant: a child that ended cleanly is not restarted.
ExitMonitorUnlessClean(l) ==
    IF exitStatus = "clean"
    THEN /\ log' = l
         /\ slept' = slept
         /\ pc' = "returned"
    ELSE /\ log' = Println(l, LogExited)
         /\ slept' = RestartDelaySecs
         /\ pc' = "sleep"

\* println!("... Sidecar exited unexpectedly. Restarting in 2s..."); sleep 2 s
ExitMonitor(l) ==
    /\ log' = Println(l, LogExited)
    /\ slept' = RestartDelaySecs
    /\ pc' = "sleep"

\* the body of the while loop: println!("[AGENT ZERO]: {}", line)
LogEvent(event) ==
    IF IsLogged(event) THEN Println(log, LogAgent(event.c, event.n)) ELSE log

\* rx.recv().await returns Some(event)
RecvEvent ==
    /\ host = "running"
    /\ pc = "recv"
    /\ chan # <<>>
    /\ chan' = Tail(chan)
    /\ IF LoopContinues(Head(chan))
       THEN /\ log' = LogEvent(Head(chan))
            /\ UNCHANGED <<pc, slept>>
       ELSE ExitMonitor(LogEvent(Head(chan)))
    /\ last' = "recv_event"
    /\ UNCHANGED <<tasks, handle, nextId, fails, eos>>
    /\ UNCHANGED <<alive, written, fwd, exitStatus, termSent>>
    /\ UNCHANGED uiVars

\* rx.recv().await returns None
RecvNone ==
    /\ host = "running"
    /\ pc = "recv"
    /\ chan = <<>>
    /\ Closed
    /\ eos' = eos \cup {handle}
    /\ ExitMonitor(log)
    /\ last' = "recv_none"
    /\ UNCHANGED <<tasks, handle, nextId, fails>>
    /\ UNCHANGED childVars
    /\ UNCHANGED uiVars

\* Variant: the task returns after the sleep instead of looping.
SleepThenReturn ==
    /\ host = "running"
    /\ pc = "sleep"
    /\ pc' = "returned"
    /\ handle' = 0
    /\ chan' = <<>>
    /\ exitStatus' = "none"
    /\ last' = "sleep_done"
    /\ UNCHANGED <<tasks, nextId, fails, slept, eos, log>>
    /\ UNCHANGED <<alive, written, fwd, termSent>>
    /\ UNCHANGED uiVars

\* std::thread::sleep returns; the iteration ends (rx and child are dropped)
SleepDone ==
    /\ host = "running"
    /\ pc = "sleep"
    /\ pc' = "loop"
    /\ handle' = 0
    /\ chan' = <<>>
    /\ exitStatus' = "none"
    /\ last' = "sleep_done"
    /\ UNCHANGED <<tasks, nextId, fails, slept, eos, log>>
    /\ UNCHANGED <<alive, written, fwd, termSent>>
    /\ UNCHANGED uiVars

SupervisorStep ==
    \/ Announce
    \/ \E ok \in BOOLEAN : NewSidecar(ok)
    \/ SpawnOk
    \/ SpawnErr
    \/ RecvEvent
    \/ RecvNone
    \/ SleepDone

\* ---------------------------------------------------------------------
\* The engine process and the threads feeding its event channel
\* ---------------------------------------------------------------------

\* rx is held, and fed, from spawn() until the end of the iteration
Feeding == host = "running" /\ handle # 0 /\ pc \in {"recv", "sleep"}

\* the engine writes one more line to its stdout pipe
ChildWrite ==
    /\ Feeding
    /\ handle \in alive
    /\ written < MaxLines
    /\ written' = written + 1
    /\ last' = "child"
    /\ UNCHANGED <<alive, fwd, exitStatus, termSent, chan, log>>
    /\ UNCHANGED supVars
    /\ UNCHANGED uiVars

\* the stdout reader forwards the next line of the pipe as CommandEvent::Stdout
ReaderForward ==
    /\ Feeding
    /\ fwd < written
    /\ Len(chan) < MaxChan
    /\ chan' = Append(chan, Event("Stdout", handle, fwd + 1))
    /\ fwd' = fwd + 1
    /\ last' = "child"
    /\ UNCHANGED <<alive, written, exitStatus, termSent, log>>
    /\ UNCHANGED supVars
    /\ UNCHANGED uiVars

\* the engine writes to stderr: CommandEvent::Stderr
ChildStderr ==
    /\ Feeding
    /\ handle \in alive
    /\ Len(chan) < MaxChan
    /\ chan' = Append(chan, Event("Stderr", handle, 0))
    /\ last' = "child"
    /\ UNCHANGED <<alive, written, fwd, exitStatus, termSent, log>>
    /\ UNCHANGED supVars
    /\ UNCHANGED uiVars

\* an engine process exits or crashes (whether or not the host still runs)
ChildExit(c) ==
    /\ c \in alive
    /\ alive' = alive \ {c}
    /\ \E st \in {"clean", "crash"} :
          exitStatus' = IF c = handle /\ host = "running" THEN st ELSE exitStatus
    /\ last' = "child"
    /\ UNCHANGED <<written, fwd, termSent, chan, log>>
    /\ UNCHANGED supVars
    /\ UNCHANGED uiVars

\* the wait thread sends CommandEvent::Terminated, with the exit code, (or
\* Error) after the readers
WaitNotice(k) ==
    /\ Feeding
    /\ handle \notin alive
    /\ fwd = written
    /\ ~termSent
    /\ Len(chan) < MaxChan
    /\ chan' = Append(chan, Event(k, handle,
                 IF k = "Terminated" /\ exitStatus = "crash" THEN 1 ELSE 0))
    /\ termSent' = TRUE
    /\ last' = "child"
    /\ UNCHANGED <<alive, written, fwd, exitStatus, log>>
    /\ UNCHANGED supVars
    /\ UNCHANGED uiVars

ChildStep ==
    \/ ChildWrite
    \/ ReaderForward
    \/ ChildStderr
    \/ \E c \in Children : ChildExit(c)
    \/ \E k \in {"Terminated", "Error"} : WaitNotice(k)

Next ==
    \/ Setup
    \/ TrayLeftClick
    \/ \E id \in MenuIds : TrayMenuItemClick(id)
    \/ TrayOtherEvent
    \/ WindowCloseRequested
    \/ WindowOtherEvent
    \/ Announce
    \/ \E ok \in BOOLEAN : NewSidecar(ok)
    \/ SpawnOk
    \/ SpawnErr
    \/ RecvEvent
    \/ RecvNone
    \/ SleepDone
    \/ ChildWrite
    \/ ReaderForward
    \/ ChildStderr
    \/ \E c \in Children : ChildExit(c)
    \/ \E k \in {"Terminated", "Error"} : WaitNotice(k)

Spec == Init /\ [][Next]_vars

\* The state of spec section 4.1 the supervisor is in, read off its position.
SupState ==
    IF host = "exited" THEN "Stopped"
    ELSE IF pc = "idle" THEN "Idle"
    ELSE IF pc \in {"loop", "sidecar", "spawn"} THEN "Starting"
    ELSE IF pc = "recv" THEN "Running"
    ELSE IF pc = "sleep" THEN "BackingOff"
    ELSE "Aborted"

\* The task is scheduled and its sleeps return; the main thread runs setup.
LiveSpec == Spec /\ WF_vars(Setup) /\ WF_vars(SupervisorStep)

TypeOK ==
    /\ host \in {"running", "exited"}
    /\ window \in {"visible", "hidden", "destroyed"}
    /\ quitDelivered \in BOOLEAN
    /\ pc \in {"idle", "loop", "sidecar", "spawn", "recv", "sleep", "panicked",
             "returned"}
    /\ handle \in 0..MaxChildren
    /\ nextId \in 0..MaxChildren
    /\ fails \in 0..MaxFails
    /\ slept \in {0, RestartDelaySecs, SpawnFailDelaySecs}
    /\ eos \subseteq Children
    /\ tasks \in 0..1
    /\ alive \subseteq Children
    /\ written \in 0..MaxLines
    /\ fwd \in 0..written
    /\ exitStatus \in {"none", "clean", "crash"}
    /\ termSent \in BOOLEAN
    /\ Len(chan) <= MaxChan
    /\ Len(log) <= MaxLog


\* ---------------------------------------------------------------------
\* Properties
\* ---------------------------------------------------------------------

\* C1: at most one engine process is alive at any time, it is the one whose
\* handle the supervisor holds (or the one it held when the host exited), and
\* at most one supervisor task is ever started.
AtMostOneChild ==
    /\ Cardinality(alive) <= 1
    /\ (handle # 0 => alive \subseteq {handle})
    /\ (host = "running" /\ handle = 0 => alive = {})
    /\ tasks <= 1

\* a second engine is running after the first one has gone
SecondChildRunning ==
    /\ nextId = 2
    /\ alive = {2}
    /\ 1 \in eos
    /\ pc = "recv"

\* C2: once the tray menu item "quit" has been delivered, no step spawns an
\* engine process.
NoSpawnAfterQuit ==
    [][quitDelivered => nextId' = nextId /\ alive' \subseteq alive]_vars

\* quit was delivered while the supervisor was about to call spawn()
QuitBeforeSpawn ==
    /\ quitDelivered
    /\ pc = "spawn"
    /\ last = "menu_quit"

\* C3: once the host has exited, no engine process is left alive.
QuitTerminatesChild ==
    host = "exited" => alive = {}


\* C4 (as stated): while quit is not requested, every observed end of stream
\* of a child is eventually followed by a newer child being spawned.  The
\* statement is checked in a form that excuses a supervisor whose task was
\* aborted by the failed new_sidecar, so that what refutes it is spawn()
\* alone.
RestartReachesRunning ==
    \A k \in 1..(MaxChildren - 1) :
        (k \in eos) ~> (quitDelivered \/ nextId > k \/ pc = "panicked")

\* C4 (amended): while quit is not requested, every observed end of stream is
\* followed by the 2 s delay and then, eventually, by a new spawn attempt.
RestartAttempted ==
    /\ [](last = "recv_none" => pc = "sleep" /\ slept = RestartDelaySecs)
    /\ (last = "recv_none") ~> (last = "announce" \/ quitDelivered)

\* the end of stream of the first child has just been observed
ExitObserved ==
    /\ last = "recv_none"
    /\ handle = 1
    /\ 1 \in eos
    /\ ~quitDelivered

\* C5: an Err of spawn() is logged and followed by the 5 s delay and then by
\* the next attempt; while spawn keeps failing the task is never Running, the
\* host keeps running and its tray and window handlers stay enabled.
SpawnFailureIsolated ==
    /\ [](last = "spawn_err" =>
            /\ pc = "sleep" /\ slept = SpawnFailDelaySecs
            /\ host = "running"
            /\ log # <<>>
            /\ (Len(log) < MaxLog => log[Len(log)] = LogFailed))
    /\ [](fails > 0 /\ host = "running" =>
            /\ pc \in {"sleep", "loop", "sidecar", "spawn", "panicked"}
            /\ ENABLED TrayLeftClick
            /\ ENABLED WindowCloseRequested
            /\ ENABLED TrayMenuItemClick("show"))
    /\ [][fails > 0 /\ host' = "exited" /\ host = "running"
            => last' = "menu_quit"]_vars
    /\ [][pc = "sleep" /\ slept = SpawnFailDelaySecs /\ pc' # pc
            => pc' = "loop" /\ host' = "running"]_vars

\* spawn has failed twice in a row and a tray click was served in the delay
FailedTwiceUiServed ==
    /\ fails = 2
    /\ pc = "sleep"
    /\ slept = SpawnFailDelaySecs
    /\ last = "left_click"
    /\ host = "running"

\* C6: quit can be delivered while the supervisor sleeps or waits in recv,
\* and once delivered the supervisor takes no further step: the host has
\* exited without the sleep returning or the channel closing.
QuitInterruptsWait ==
    /\ (host = "running" /\ pc \in {"sleep", "recv"}
            => ENABLED TrayMenuItemClick("quit"))
    /\ (quitDelivered /\ pc \in {"sleep", "recv"}
            => host = "exited" /\ SupState = "Stopped" /\ ~ENABLED SupervisorStep)

\* quit was delivered while the supervisor waited for an event of a live child
QuitWhileMonitoring ==
    /\ quitDelivered
    /\ pc = "recv"
    /\ handle \in alive
    /\ chan = <<>>

\* the stdout lines of child c in the log, as line numbers
AgentLines(c) ==
    SelectSeq(log, LAMBDA e : e.k = "agent" /\ e.c = c)

\* C7: the log holds the stdout lines of each child in the order written,
\* without gap or duplicate, never more than the child wrote, all of them once
\* its end of stream was observed (and the log kept in full), and no line of a
\* child after one of a later child.
OutputOrdered ==
    /\ \A c \in Children :
          \A i \in 1..Len(AgentLines(c)) : AgentLines(c)[i] = LogAgent(c, i)
    /\ (handle # 0 => Len(AgentLines(handle)) <= written)
    /\ (handle # 0 /\ handle \in eos /\ Len(log) < MaxLog
            => Len(AgentLines(handle)) = written)
    /\ \A i, j \in 1..Len(log) :
          (i < j /\ log[i].k = "agent" /\ log[j].k = "agent") => log[i].c <= log[j].c

\* two lines of the first child, then a line of the second, were logged
TwoChildrenLogged ==
    /\ AgentLines(1) = <<LogAgent(1, 1), LogAgent(1, 2)>>
    /\ AgentLines(2) = <<LogAgent(2, 1)>>

\* C8: a close request hides the window and changes nothing else: not the
\* host, the supervisor, the child or the log; the host exits only on "quit".
WindowCloseHidesOnly ==
    /\ [][last' = "close_requested" =>
            /\ window' = "hidden"
            /\ UNCHANGED <<host, quitDelivered, log>>
            /\ UNCHANGED supVars
            /\ UNCHANGED childVars]_vars
    /\ [][host = "running" /\ host' = "exited" => last' = "menu_quit"]_vars

\* the window was closed while a child was live and monitored
ClosedWhileMonitoring ==
    /\ last = "close_requested"
    /\ window = "hidden"
    /\ pc = "recv"
    /\ handle \in alive
    /\ host = "running"

\* C9: the supervisor changes state only by Idle->Starting, Starting->Running
\* on a successful spawn, Starting->BackingOff on a spawn failure,
\* Running->BackingOff when the stream has closed, BackingOff->Starting after
\* the delay, or to Stopped on quit.
OnlySpecifiedTransitions ==
    [][SupState' # SupState =>
        \/ SupState = "Idle" /\ SupState' = "Starting"
        \/ /\ SupState = "Starting" /\ SupState' = "Running"
           /\ nextId' = nextId + 1 /\ handle' = nextId'
        \/ SupState = "Starting" /\ SupState' = "BackingOff" /\ last' = "spawn_err"
        \/ /\ SupState = "Running" /\ SupState' = "BackingOff"
           /\ chan = <<>> /\ Closed
        \/ SupState = "BackingOff" /\ SupState' = "Starting" /\ last' = "sleep_done"
        \/ SupState' = "Stopped" /\ quitDelivered'
      ]_vars

\* C10: whenever the supervisor is about to attempt a spawn, the end of stream
\* of every child spawned before has been observed and that child is gone.
RestartAfterStreamClosed ==
    pc \in {"loop", "sidecar", "spawn"} =>
        \A k \in 1..nextId : k \in eos /\ k \notin alive

\* a restart (not a retry) is about to call spawn() after the first child
RestartAboutToSpawn ==
    /\ pc = "spawn"
    /\ nextId = 1
    /\ 1 \in eos
    /\ fails = 0


\* C11: the delay entered is 5 s after an Err of spawn() and 2 s after an end
\* of stream, whatever the number of failures or exits before; 5 s is the
\* longer one; and every delay, whatever that number, ends in a new attempt
\* while the host runs.
RestartPolicyFixed ==
    /\ [][pc # "sleep" /\ pc' = "sleep" =>
            /\ last' \in {"spawn_err", "recv_none"}
            /\ slept' = IF last' = "spawn_err" THEN SpawnFailDelaySecs
                        ELSE RestartDelaySecs]_vars
    /\ SpawnFailDelaySecs > RestartDelaySecs
    /\ [](pc = "sleep" /\ host = "running" => ENABLED SleepDone)
    /\ [](pc = "loop" /\ host = "running" => ENABLED Announce)
    /\ [][pc = "sleep" /\ pc' # "sleep" => pc' = "loop"]_vars

\* the second failure in a row has just entered the same 5 s delay
SecondFailureSameDelay ==
    /\ last = "spawn_err"
    /\ fails = 2
    /\ pc = "sleep"
    /\ slept = SpawnFailDelaySecs


\* C12: the supervisor leaves the monitor loop, short of quit, only when recv
\* returns None, and what it then does (log "exited", 2 s delay, next attempt)
\* is the same for a clean exit and for a crash: the exit status, and the code
\* in the Terminated event, change nothing of the supervisor or the log.
ExitStatusIgnored ==
    /\ [][pc = "recv" /\ pc' # "recv" =>
            last' = "recv_none" /\ chan = <<>> /\ Closed]_vars
    /\ [][last' = "recv_none" =>
            /\ exitStatus \in {"clean", "crash"}
            /\ pc' = "sleep"
            /\ slept' = RestartDelaySecs
            /\ log' = Println(log, LogExited)
            /\ UNCHANGED <<handle, nextId, fails, tasks, host>>]_vars
    /\ [][exitStatus = "none" /\ exitStatus' # "none"
            => UNCHANGED <<supVars, log, host>>]_vars
    /\ [](pc = "sleep" /\ slept = RestartDelaySecs /\ host = "running"
            => ENABLED SleepDone)

\* the end of stream of a child that ended cleanly led to the restart delay
CleanExitRestarted ==
    /\ last = "recv_none"
    /\ exitStatus = "clean"
    /\ pc = "sleep"
    /\ slept = RestartDelaySecs
    /\ Len(log) < MaxLog
    /\ log[Len(log)] = LogExited


\* the kinds of log line that may directly follow a line of kind k
MayFollow(k) ==
    IF k = "spawning" THEN {"failed", "started"}
    ELSE IF k = "failed" THEN {"spawning"}
    ELSE IF k = "started" THEN {"agent", "exited"}
    ELSE IF k = "agent" THEN {"agent", "exited"}
    ELSE {"spawning"}

\* C13: the log starts with a spawn-attempt line; an attempt line is followed
\* by the failure line or by the started line, the child's lines and the
\* "exited" line, and each of those ends is followed by the next attempt
\* line.  While spawn is tried the attempt line is the newest line; while a
\* delay runs the failure (5 s) or "exited" (2 s) line is the newest line.
LifecycleLogged ==
    /\ (log # <<>> => log[1] = LogSpawning)
    /\ \A i \in 1..(Len(log) - 1) : log[i + 1].k \in MayFollow(log[i].k)
    /\ (pc \notin {"idle", "loop"} => log # <<>>)
    /\ (Len(log) < MaxLog /\ pc \in {"sidecar", "spawn"}
            => log[Len(log)] = LogSpawning)
    /\ (Len(log) < MaxLog /\ pc = "sleep"
            => log[Len(log)] = IF slept = SpawnFailDelaySecs THEN LogFailed
                               ELSE LogExited)

\* a child printed one line and exited; the restart has been announced
ReadyExitRespawn ==
    /\ log = <<LogSpawning, LogStarted, LogAgent(1, 1), LogExited, LogSpawning>>
    /\ pc = "sidecar"


\* C14: an Err of new_sidecar ends the supervisor task on the spot: nothing is
\* logged, no delay is entered, and from then on the task takes no step and
\* spawns nothing while the host keeps running and serving its events; the
\* 5 s delay is entered only after an Err of spawn().
SidecarErrAbortsTask ==
    /\ [][last' = "sidecar_err" =>
            /\ pc = "sidecar" /\ pc' = "panicked"
            /\ UNCHANGED <<log, slept, handle, nextId, fails, alive, host>>]_vars
    /\ [](pc = "panicked" =>
            /\ ~ENABLED SupervisorStep
            /\ (host = "running" =>
                  ENABLED TrayLeftClick /\ ENABLED WindowCloseRequested))
    /\ [][pc = "panicked" =>
            /\ pc' = "panicked"
            /\ UNCHANGED <<log, nextId, handle, slept>>
            /\ alive' \subseteq alive
            /\ (host' # host => last' = "menu_quit")]_vars
    /\ [][pc # "sleep" /\ pc' = "sleep" /\ slept' = SpawnFailDelaySecs
            => last' = "spawn_err"]_vars

\* the task was aborted on a restart and the host still serves tray clicks
AbortedHostServing ==
    /\ pc = "panicked"
    /\ host = "running"
    /\ nextId = 1
    /\ 1 \in eos
    /\ last = "left_click"


\* C15: receiving an event that is not Stdout takes it off the channel and
\* changes nothing else: no log line, same supervisor state, still monitoring;
\* a Stdout event adds exactly its line; the monitor loop is left only when
\* recv returns None.
OnlyStdoutLogged ==
    /\ [][last' = "recv_event" =>
            /\ pc = "recv" /\ pc' = "recv"
            /\ chan # <<>> /\ chan' = Tail(chan)
            /\ log' = IF Head(chan).k = "Stdout"
                      THEN Println(log, LogAgent(Head(chan).c, Head(chan).n))
                      ELSE log
            /\ UNCHANGED <<supVars, host>>]_vars
    /\ [][pc = "recv" /\ pc' # "recv" => last' = "recv_none" /\ handle \in eos']_vars
    /\ \A i \in 1..Len(log) : log[i].k = "agent" => log[i].n >= 1

\* the final event of a dead child was received and monitoring goes on
NoticeDropped ==
    /\ last = "recv_event"
    /\ pc = "recv"
    /\ termSent
    /\ chan = <<>>
    /\ handle \notin alive
    /\ handle \notin eos
    /\ log = <<LogSpawning, LogStarted>>


\* C16: close requests, tray left clicks, "show" and every other menu or
\* tray or window event leave the host running, the window in existence and
\* the supervisor, the child and the log as they were; a left click toggles
\* the window, "show" makes it visible and can always be served; as long as
\* "quit" was not delivered the host runs with its window and one supervisor
\* task.
HostEndsOnlyByQuit ==
    /\ [][last' \in {"close_requested", "left_click", "menu_show", "other_event"} =>
            /\ host = "running" /\ host' = "running"
            /\ window' \in {"visible", "hidden"}
            /\ UNCHANGED <<supVars, childVars, log, quitDelivered>>]_vars
    /\ [][last' = "left_click" =>
            window' = IF window = "visible" THEN "hidden" ELSE "visible"]_vars
    /\ [][last' = "menu_show" => window' = "visible"]_vars
    /\ [](~quitDelivered =>
            /\ host = "running"
            /\ window \in {"visible", "hidden"}
            /\ tasks = IF pc = "idle" THEN 0 ELSE 1)
    /\ [](host = "running" /\ pc # "idle" => ENABLED TrayMenuItemClick("show"))

\* a hidden window was shown again by a left click while a child was monitored
ShownAgainByLeftClick ==
    /\ last = "left_click"
    /\ window = "visible"
    /\ host = "running"
    /\ pc = "recv"
    /\ handle \in alive

====
